---- MODULE Spec2Model ----
(***************************************************************************)
(* git-pretty-log: the log-traversal-and-annotation pipeline.              *)
(*                                                                         *)
(* main.go holds two iterations of the tool:                               *)
(*   "flag"  (main.go:1-267)   a `reachable` flag seeded from a merge-base *)
(*           probe and cleared when the walk visits the base commit; the   *)
(*           diff-stat comes from `git diff --shortstat`;                  *)
(*   "probe" (main.go:269-537) an ancestry probe (commitContainsCommit)    *)
(*           per visited commit; the diff-stat comes from a tree diff.     *)
(* A third iteration, "excl", is the one spec.md describes with the        *)
(* --exclude / -e flag; main.go has no code for it, its diff engine and    *)
(* its flag are modelled from spec.md (sections 4.4 and 6).                *)
(*                                                                         *)
(* The repository is a commit DAG (commit identifiers 1..MaxCommits, the   *)
(* parents of a commit have smaller identifiers), one tree per commit, the *)
(* branch references main and master, and HEAD.  A tree maps each path to  *)
(* a blob: 0 is "no file", k > 0 is a file of k lines.  Blobs of different *)
(* paths never share content (no renames), two different blobs of one path *)
(* share no line.                                                          *)
(***************************************************************************)
EXTENDS Integers, Sequences, FiniteSets, TLC

MaxCommits == 4
MaxLines == 2
DefaultNumCommits == 30

Commits == 1..MaxCommits
Paths == {"a", "b"}
Trees == [Paths -> 0..MaxLines]
VALID_BASE_BRANCH_NAMES == <<"main", "master">>

VARIABLES
    iter,        \* which iteration of main.go runs
    argv,        \* the command line: [n, numCommits: {} or {k}; b, base: string; e: set of paths]
    repoExists,  \* git.PlainOpen succeeds
    parents,     \* commit -> sequence of parent commits
    head,        \* the commit HEAD points at
    refs,        \* branch name -> commit, 0 when the branch does not exist
    tree,        \* commit -> tree
    fault,       \* commit -> "ok" | "fail" | "junk": what the external diff does for it
    pc,          \* position of main
    args,        \* ParsedArgs: numberCommits, baseCommit (exclude: iteration "excl")
    reachable,   \* main.go:50
    count,       \* main.go:59
    i,           \* main.go:325, the loop index
    logPos,      \* number of commits the log iterator has handed out
    rows,        \* the table's rows, in AppendRow order
    rendered,    \* table.Render() ran
    exitCode     \* -1 while running

vars == <<iter, argv, repoExists, parents, head, refs, tree, fault, pc, args,
          reachable, count, i, logPos, rows, rendered, exitCode>>

inputs == <<iter, argv, repoExists, parents, head, refs, tree, fault>>

(***************************************************************************)
(* Command line and base resolution                                        *)
(***************************************************************************)

\* flag.IntVar / flag.StringVar: the default unless the flag is given.
FlagValue(given, default) == IF given = {} THEN default ELSE CHOOSE v \in given : TRUE

\* main.go:165-178: the first of refs/heads/main, refs/heads/master that exists; 0: error.
RECURSIVE getBaseBranchFrom(_)
getBaseBranchFrom(k) ==
    IF k > Len(VALID_BASE_BRANCH_NAMES) THEN 0
    ELSE IF refs[VALID_BASE_BRANCH_NAMES[k]] # 0 THEN refs[VALID_BASE_BRANCH_NAMES[k]]
    ELSE getBaseBranchFrom(k + 1)

\* A resolver that falls back to HEAD when neither branch exists.
getBaseBranchOrHead == IF getBaseBranchFrom(1) # 0 THEN getBaseBranchFrom(1) ELSE head

getBaseBranch == getBaseBranchFrom(1)

\* repo.ResolveRevision (main.go:110): HEAD, or a branch name; 0: error.
ResolveRevision(rev) ==
    IF rev = "HEAD" THEN head
    ELSE IF rev \in DOMAIN refs THEN refs[rev]
    ELSE 0

\* main.go:88-123 Args.Parse: [err, numberCommits, baseCommit].
ArgsParse(baseName, numberCommits) ==
    LET baseCommit == IF baseName = "" THEN getBaseBranch ELSE ResolveRevision(baseName)
    IN  IF ~repoExists \/ baseCommit = 0
        THEN [err |-> TRUE, numberCommits |-> 0, baseCommit |-> 0]
        ELSE [err |-> FALSE, numberCommits |-> numberCommits, baseCommit |-> baseCommit]

\* main.go:146-148, 158-160: the effective number of commits.
effectiveNumberCommits ==
    LET longNumberCommits == FlagValue(argv.numCommits, DefaultNumCommits)
        shortNumberCommits == FlagValue(argv.n, DefaultNumCommits)
    IN  IF longNumberCommits # 0 THEN longNumberCommits ELSE shortNumberCommits

\* main.go:143-145, 152-154: the effective base name.
effectiveBaseName == IF argv.base # "" THEN argv.base ELSE argv.b

\* main.go:132-163 parseArgs.
parseArgs == ArgsParse(effectiveBaseName, effectiveNumberCommits)

(***************************************************************************)
(* History                                                                 *)
(***************************************************************************)

ParentSet(c) == {parents[c][k] : k \in 1..Len(parents[c])}

\* c and every commit reachable from it.
RECURSIVE Ancestors(_)
Ancestors(c) == {c} \cup UNION {Ancestors(p) : p \in ParentSet(c)}

\* object.Commit.MergeBase (main.go:49, 437): the best common ancestors.
MergeBase(a, b) ==
    LET common == Ancestors(a) \cap Ancestors(b)
    IN  {m \in common : \A o \in common : o = m \/ m \notin Ancestors(o)}

\* main.go:436-449 commitContainsCommit.
commitContainsCommit(descendant, ancestor) ==
    LET mb == MergeBase(descendant, ancestor)
    IN  IF mb = {} THEN FALSE ELSE \E m \in mb : m = ancestor

\* repo.Log(&git.LogOptions{}) (main.go:58, 324): the pre-order walk from HEAD,
\* parents in their recorded order, a commit handed out once.
RECURSIVE PreOrder(_, _, _)
PreOrder(stack, seen, out) ==
    IF stack = <<>> THEN out
    ELSE LET top == stack[Len(stack)]
             rest == SubSeq(stack, 1, Len(stack) - 1)
         IN  IF top = <<>> THEN PreOrder(rest, seen, out)
             ELSE LET c == Head(top)
                      below == Append(rest, Tail(top))
                  IN  IF c \in seen THEN PreOrder(below, seen, out)
                      ELSE PreOrder(IF parents[c] = <<>> THEN below
                                    ELSE Append(below, parents[c]),
                                    seen \cup {c}, Append(out, c))

LogOrder == PreOrder(<<<<head>>>>, {}, <<>>)

(***************************************************************************)
(* Diff-stat                                                               *)
(***************************************************************************)

RECURSIVE Sum(_, _)
Sum(f, S) == IF S = {} THEN 0
             ELSE LET x == CHOOSE y \in S : TRUE IN f[x] + Sum(f, S \ {x})

\* The files of `among` that differ between two trees, and the lines added and
\* deleted: a changed file loses every line of its old blob and gains every
\* line of its new one.
DiffStat(from, to, among) ==
    LET changed == {p \in among : from[p] # to[p]}
    IN  [files |-> Cardinality(changed),
         insertions |-> Sum(to, changed),
         deletions |-> Sum(from, changed)]

\* The summary line of `git diff --shortstat`, as tokens; <<>> when nothing changed.
ShortstatLine(st) ==
    IF st.files = 0 THEN <<>>
    ELSE <<[kind |-> "files", n |-> st.files]>>
         \o (IF st.insertions > 0 \/ st.deletions = 0
             THEN <<[kind |-> "insertions", n |-> st.insertions]>> ELSE <<>>)
         \o (IF st.deletions > 0 \/ st.insertions = 0
             THEN <<[kind |-> "deletions", n |-> st.deletions]>> ELSE <<>>)

\* main.go:238-240: stdout of `git diff --shortstat <ancestor> <commit>`; the
\* error of cmd.Output() is dropped, a failed command has an empty stdout.
gitDiffShortstat(commit, ancestor) ==
    IF fault[commit] = "fail" THEN <<>>
    ELSE IF fault[commit] = "junk" THEN <<[kind |-> "junk", n |-> 0]>>
    ELSE ShortstatLine(DiffStat(tree[ancestor], tree[commit], Paths))

\* main.go:235, 241 shortstatRE.FindStringSubmatch: the leftmost match starts at
\* offset 0, every group is optional; a group is <<>> (unmatched) or <<n>>.
\* An "insertions" or "deletions" token stands for the text with its leading ", ".
FindStringSubmatch(out) ==
    LET g1 == IF Len(out) >= 1 /\ out[1].kind = "files" THEN <<out[1].n>> ELSE <<>>
        k1 == 1 + Len(g1)
        g2 == IF Len(out) >= k1 /\ out[k1].kind = "insertions"
              THEN <<out[k1].n>> ELSE <<>>
        k2 == k1 + Len(g2)
        g3 == IF Len(out) >= k2 /\ out[k2].kind = "deletions"
              THEN <<out[k2].n>> ELSE <<>>
    IN  <<g1, g2, g3>>

\* main.go:245-266: the parts of the matched groups, joined.
JoinParts(matches) ==
    (IF matches[1] # <<>> THEN <<<<matches[1][1], "~">>>> ELSE <<>>)
    \o (IF matches[2] # <<>> THEN <<<<matches[2][1], "+">>>> ELSE <<>>)
    \o (IF matches[3] # <<>> THEN <<<<matches[3][1], "-">>>> ELSE <<>>)

\* A prettyDiff that prints an unmatched file count as 0.
prettyDiffZeroes(commit, ancestor) ==
    LET m == FindStringSubmatch(gitDiffShortstat(commit, ancestor))
    IN  JoinParts(<<IF m[1] = <<>> THEN <<0>> ELSE m[1], m[2], m[3]>>)

\* main.go:237-267 prettyDiff (iteration "flag").
prettyDiff(commit, ancestor) == JoinParts(FindStringSubmatch(gitDiffShortstat(commit, ancestor)))

\* main.go:509-536 prettyDiff (iteration "probe"): the tree diff, the items > 0.
prettyDiffTree(commit, ancestor) ==
    LET st == DiffStat(tree[ancestor], tree[commit], Paths)
    IN  (IF st.files > 0 THEN <<<<st.files, "~">>>> ELSE <<>>)
        \o (IF st.insertions > 0 THEN <<<<st.insertions, "+">>>> ELSE <<>>)
        \o (IF st.deletions > 0 THEN <<<<st.deletions, "-">>>> ELSE <<>>)

\* An engine that drops the exclusion patterns.
gitDiffShortstatIgnoringExclude(commit, ancestor, exclude) ==
    IF fault[commit] = "fail" THEN <<>>
    ELSE IF fault[commit] = "junk" THEN <<[kind |-> "junk", n |-> 0]>>
    ELSE ShortstatLine(DiffStat(tree[ancestor], tree[commit], Paths))

\* spec.md 4.4 (b): the external engine restricted to the paths no exclusion
\* pattern matches (negated pathspecs); a pattern is a path.
gitDiffShortstatExcluding(commit, ancestor, exclude) ==
    IF fault[commit] = "fail" THEN <<>>
    ELSE IF fault[commit] = "junk" THEN <<[kind |-> "junk", n |-> 0]>>
    ELSE ShortstatLine(DiffStat(tree[ancestor], tree[commit], Paths \ exclude))

\* spec.md 4.4, 4.5: the diff field of iteration "excl".
prettyDiffExcluding(commit, ancestor, exclude) ==
    JoinParts(FindStringSubmatch(gitDiffShortstatExcluding(commit, ancestor, exclude)))

(***************************************************************************)
(* Rows                                                                    *)
(***************************************************************************)

\* main.go:191-198 printCommit: diff := "".
printCommit(commit) ==
    [commit |-> commit, via |-> "printCommit", diff |-> <<>>, fault |-> "ok"]

\* main.go:201-208 printCommitWithDiff.
printCommitWithDiff(commit, diff) ==
    [commit |-> commit, via |-> "printCommitWithDiff", diff |-> diff, fault |-> fault[commit]]

(***************************************************************************)
(* Inputs                                                                  *)
(***************************************************************************)

\* The parents a commit may record: none, one, or two (a merge), older commits only.
ParentChoices(c) ==
    {<<>>} \cup {<<p>> : p \in 1..(c - 1)}
           \cup {<<p, q>> : <<p, q>> \in {pq \in (1..(c - 1)) \X (1..(c - 1)) : pq[1] # pq[2]}}

RECURSIVE DAGsUpTo(_)
DAGsUpTo(n) ==
    IF n = 0 THEN {<<>>}
    ELSE {Append(d, ps) : <<d, ps>> \in DAGsUpTo(n - 1) \X ParentChoices(n)}

DAGs == DAGsUpTo(MaxCommits)

ChainParents == [c \in Commits |-> IF c = 1 THEN <<>> ELSE <<c - 1>>]

StdTree == [c \in Commits |->
              [p \in Paths |-> IF p = "a" THEN 1 + (c % MaxLines)
                               ELSE IF c > 1 THEN 1 ELSE 0]]

NoFault == [c \in Commits |-> "ok"]

NFlag == {{}, {-1}, {0}, {2}}

\* The command lines that make numberCommits -1, 0, 2 and the default.
NArgs == {[n |-> {}, numCommits |-> {}],   [n |-> {}, numCommits |-> {-1}],
          [n |-> {}, numCommits |-> {2}],  [n |-> {0}, numCommits |-> {0}]}

Argv(n, numCommits, b, base, e) ==
    [n |-> n, numCommits |-> numCommits, b |-> b, base |-> base, e |-> e]

\* Every command line, on a linear history with HEAD at its tip.
ArgsSlice ==
    /\ argv \in {Argv(n, l, b, base, {}) : n \in NFlag, l \in NFlag,
                                           b \in {"", "master", "bogus"},
                                           base \in {"", "HEAD", "bogus"}}
    /\ repoExists \in BOOLEAN
    /\ refs \in [{"main", "master"} -> {0, 1, MaxCommits}]
    /\ parents = ChainParents
    /\ head = MaxCommits
    /\ tree = StdTree
    /\ fault = NoFault

\* Every history, HEAD and base commit (the branch main).
GraphSlice ==
    /\ argv \in {Argv(a.n, a.numCommits, "", "", {}) : a \in NArgs}
    /\ repoExists = TRUE
    /\ refs \in {[main |-> b, master |-> 0] : b \in Commits}
    /\ parents \in DAGs
    /\ head \in Commits
    /\ tree = StdTree
    /\ fault = NoFault

\* Every tree of the base and of the later commits, every exclusion set, on a
\* linear history whose root is the base.
TreeSlice ==
    /\ argv \in {Argv({}, {}, "", "", e) : e \in SUBSET Paths}
    /\ repoExists = TRUE
    /\ refs = [main |-> 1, master |-> 0]
    /\ parents = ChainParents
    /\ head = MaxCommits
    /\ tree \in {[c \in Commits |-> IF c = 1 THEN tb ELSE th] : tb \in Trees, th \in Trees}
    /\ fault = NoFault

\* Every failure of the external diff, on a linear history.
FaultSlice ==
    /\ argv \in {Argv({}, l, "", "", {}) : l \in {{}, {2}}}
    /\ repoExists = TRUE
    /\ refs \in {[main |-> b, master |-> 0] : b \in {1, 2}}
    /\ parents = ChainParents
    /\ head = MaxCommits
    /\ tree = StdTree
    /\ fault \in [Commits -> {"ok", "fail", "junk"}]

Inputs == ArgsSlice \/ GraphSlice \/ TreeSlice \/ FaultSlice

Start ==
    /\ pc = "start"
    /\ args = [numberCommits |-> 0, baseCommit |-> 0, exclude |-> {}]
    /\ reachable = TRUE
    /\ count = 0
    /\ i = 0
    /\ logPos = 0
    /\ rows = <<>>
    /\ rendered = FALSE
    /\ exitCode = -1

Init == iter \in {"flag", "probe"} /\ Inputs /\ Start
InitFlag == iter = "flag" /\ Inputs /\ Start
InitProbe == iter = "probe" /\ Inputs /\ Start
InitExcl == iter = "excl" /\ Inputs /\ Start

(***************************************************************************)
(* main                                                                    *)
(***************************************************************************)

Fatal(code) ==
    /\ pc' = "fatal"
    /\ exitCode' = code
    /\ UNCHANGED <<args, reachable, count, i, logPos, rows, rendered>>

\* main.go:21-28 (and 289-301): flag.Parse exits with status 2 on a flag that is
\* not defined (-e), an error of parseArgs exits with status 1.
ParseArgs ==
    /\ pc = "start"
    /\ iter \in {"flag", "probe"}
    /\ UNCHANGED inputs
    /\ IF argv.e # {} THEN Fatal(2)
       ELSE IF parseArgs.err THEN Fatal(1)
       ELSE /\ args' = [numberCommits |-> parseArgs.numberCommits,
                        baseCommit |-> parseArgs.baseCommit, exclude |-> {}]
            /\ pc' = IF iter = "probe" THEN "walk" ELSE "setup"
            /\ UNCHANGED <<reachable, count, i, logPos, rows, rendered, exitCode>>

\* spec.md 6: parseArgs of the iteration that defines --exclude / -e.
ExclParseArgs ==
    /\ pc = "start"
    /\ iter = "excl"
    /\ UNCHANGED inputs
    /\ IF parseArgs.err THEN Fatal(1)
       ELSE /\ args' = [numberCommits |-> parseArgs.numberCommits,
                        baseCommit |-> parseArgs.baseCommit, exclude |-> argv.e]
            /\ pc' = "setup"
            /\ UNCHANGED <<reachable, count, i, logPos, rows, rendered, exitCode>>

\* main.go:47-53: reachable := true, false when the merge base is empty.
ancestryProbe == MergeBase(head, args.baseCommit) # {}

\* main.go:30-59: the ancestry probe, the table, the log, the count.
Setup ==
    /\ pc = "setup"
    /\ reachable' = ancestryProbe
    /\ count' = args.numberCommits
    /\ pc' = "walk"
    /\ UNCHANGED <<inputs, args, i, logPos, rows, rendered, exitCode>>

\* A flag that is never cleared at the base commit.
stillReachableNeverCleared(commit) == reachable

\* A flag recomputed at every visit: set again after the base commit.
stillReachableRecomputed(commit) == commit # args.baseCommit

\* main.go:62-64: the flag after the visit of `commit`.
stillReachable(commit) == IF commit = args.baseCommit THEN FALSE ELSE reachable

\* main.go:61-77: the callback of log.ForEach for one commit; `diff` is what
\* prettyDiff gives for it.
ForEachBody(commit, diff) ==
    /\ logPos' = logPos + 1
    /\ reachable' = stillReachable(commit)
    /\ IF count = 0
       THEN /\ pc' = "render"
            /\ UNCHANGED <<count, rows>>
       ELSE /\ count' = count - 1
            /\ rows' = Append(rows, IF stillReachable(commit)
                                    THEN printCommitWithDiff(commit, diff)
                                    ELSE printCommit(commit))
            /\ pc' = pc
    /\ UNCHANGED <<inputs, args, i, rendered, exitCode>>

FlagStep ==
    /\ pc = "walk"
    /\ iter = "flag"
    /\ logPos < Len(LogOrder)
    /\ LET commit == LogOrder[logPos + 1]
       IN  ForEachBody(commit, prettyDiff(commit, args.baseCommit))

\* spec.md 4.2, 4.4: the same walk, the diff field from the excluding engine.
ExclStep ==
    /\ pc = "walk"
    /\ iter = "excl"
    /\ logPos < Len(LogOrder)
    /\ LET commit == LogOrder[logPos + 1]
       IN  ForEachBody(commit, prettyDiffExcluding(commit, args.baseCommit, args.exclude))

\* A walk that reports the end of the history as an error.
ForEachEndAsError ==
    /\ pc = "walk"
    /\ iter \in {"flag", "excl"}
    /\ logPos = Len(LogOrder)
    /\ pc' = "fatal"
    /\ exitCode' = 1
    /\ UNCHANGED <<inputs, args, reachable, count, i, logPos, rows, rendered>>

\* main.go:61, 77: log.ForEach returns when the history is exhausted.
ForEachEnd ==
    /\ pc = "walk"
    /\ iter \in {"flag", "excl"}
    /\ logPos = Len(LogOrder)
    /\ pc' = "render"
    /\ UNCHANGED <<inputs, args, reachable, count, i, logPos, rows, rendered, exitCode>>

\* main.go:325-345: one iteration of the loop.
ProbeStep ==
    /\ pc = "walk"
    /\ iter = "probe"
    /\ i < args.numberCommits
    /\ logPos < Len(LogOrder)
    /\ LET commit == LogOrder[logPos + 1]
       IN  rows' = Append(rows, IF commitContainsCommit(commit, args.baseCommit)
                                THEN printCommitWithDiff(commit, prettyDiffTree(commit, args.baseCommit))
                                ELSE printCommit(commit))
    /\ logPos' = logPos + 1
    /\ i' = i + 1
    /\ UNCHANGED <<inputs, args, reachable, count, pc, rendered, exitCode>>

\* main.go:325-333: the loop ends at i = numberCommits or at io.EOF.
ProbeEnd ==
    /\ pc = "walk"
    /\ iter = "probe"
    /\ (i >= args.numberCommits \/ logPos = Len(LogOrder))
    /\ pc' = "render"
    /\ UNCHANGED <<inputs, args, reachable, count, i, logPos, rows, rendered, exitCode>>

\* main.go:79 (and 347).
Render ==
    /\ pc = "render"
    /\ rendered' = TRUE
    /\ pc' = "done"
    /\ exitCode' = 0
    /\ UNCHANGED <<inputs, args, reachable, count, i, logPos, rows>>

NextFlag == ParseArgs \/ Setup \/ FlagStep \/ ForEachEnd \/ Render
NextProbe == ParseArgs \/ ProbeStep \/ ProbeEnd \/ Render
NextExcl == ExclParseArgs \/ Setup \/ ExclStep \/ ForEachEnd \/ Render
Next == ParseArgs \/ Setup \/ FlagStep \/ ForEachEnd \/ ProbeStep \/ ProbeEnd \/ Render

Spec == Init /\ [][Next]_vars
SpecFlag == InitFlag /\ [][NextFlag]_vars
SpecProbe == InitProbe /\ [][NextProbe]_vars
SpecExcl == InitExcl /\ [][NextExcl]_vars

(***************************************************************************)
(* Properties                                                              *)
(***************************************************************************)

Parsed == pc \in {"setup", "walk", "render", "done"}
WalkOver == pc \in {"render", "done"}
RowIndexes == 1..Len(rows)
History == Ancestors(head)
BaseIsAncestorOfHead == args.baseCommit \in History
Annotated(k) == rows[k].via = "printCommitWithDiff"
StrictDescendantOfBase(c) == c # args.baseCommit /\ args.baseCommit \in Ancestors(c)
BaseVisitedBy(k) == \E j \in 1..k : rows[j].commit = args.baseCommit
IsChain == parents = ChainParents

\* C1: when the base commit is not an ancestor of HEAD (disjoint or diverged
\* histories alike), no row of the run is rendered through printCommitWithDiff.
C1_NoDiffWhenBaseNotAncestor ==
    (Parsed /\ ~BaseIsAncestorOfHead) => \A k \in RowIndexes : ~Annotated(k)

\* C2: a displayed commit is rendered through printCommitWithDiff exactly when
\* it is a strict descendant of the base commit. Stated on the histories whose
\* base is an ancestor of HEAD; the others are C1's.
C2_AnnotatedIffStrictDescendant ==
    (Parsed /\ BaseIsAncestorOfHead) =>
        \A k \in RowIndexes : Annotated(k) <=> StrictDescendantOfBase(rows[k].commit)

C4_NoRowsWhenLimitNotPositive ==
    (Parsed /\ args.numberCommits <= 0) => rows = <<>>

\* C5: with a commit limit above the number of commits reachable from HEAD, the
\* walk ends normally with exactly one row per reachable commit, and the table
\* is rendered with exit status 0; the walk never reads past the end.
C5_ExhaustionIsNormal ==
    /\ (args.numberCommits > Cardinality(History) /\ pc \notin {"start", "setup", "walk"}) =>
          /\ WalkOver
          /\ Len(rows) = Cardinality(History)
          /\ {rows[k].commit : k \in RowIndexes} = History
          /\ pc = "done" => rendered /\ exitCode = 0
    /\ logPos <= Cardinality(History)

\* C5, reached: both iterations run off the end of a history with a merge.
C5_Witness ==
    /\ pc = "done" /\ rendered
    /\ args.numberCommits = DefaultNumCommits
    /\ Len(rows) = Cardinality(History)
    /\ Len(rows) = MaxCommits
    /\ \E c \in Commits : Len(parents[c]) = 2

\* What the command line asks for: --num-commits when given, else -n, else the default.
RequestedLimit ==
    IF argv.numCommits # {} THEN FlagValue(argv.numCommits, 0)
    ELSE IF argv.n # {} THEN FlagValue(argv.n, 0)
    ELSE DefaultNumCommits

\* C6: the effective commit limit is the value of --num-commits when it is given
\* (0 included, and also when -n is given too), the value of -n when only -n is
\* given, and 30 when neither is given.
C6_EffectiveLimit == Parsed => args.numberCommits = RequestedLimit

\* The base revision of the command line resolves to no commit.
BaseUnresolvable ==
    LET name == IF argv.base # "" THEN argv.base ELSE argv.b
    IN  IF name = "" THEN refs["main"] = 0 /\ refs["master"] = 0
        ELSE name # "HEAD" /\ (name \in {"main", "master"} => refs[name] = 0)

\* C7: when the base revision cannot be resolved, the run ends in the fatal state
\* with a non-zero exit status before the walk starts: no commit visited, no row
\* appended, the table never rendered.
C7_UnresolvableBaseIsFatal ==
    (pc # "start" /\ BaseUnresolvable) =>
        /\ pc = "fatal"
        /\ exitCode > 0
        /\ logPos = 0
        /\ rows = <<>>
        /\ ~rendered

\* C7, reached: no --base, neither main nor master exists, the repository opens.
C7_Witness ==
    /\ pc = "fatal" /\ exitCode = 1 /\ repoExists
    /\ argv.base = "" /\ argv.b = ""
    /\ refs["main"] = 0 /\ refs["master"] = 0

\* A tree without the excluded paths.
Mask(t) == [p \in Paths |-> IF p \in args.exclude THEN 0 ELSE t[p]]

ChangedPaths(c) == {p \in Paths : tree[args.baseCommit][p] # tree[c][p]}

\* C8: the diff field of an annotated row is the diff-stat of the two trees with
\* the excluded paths removed from both; when the exclusion patterns match every
\* changed file the field is empty.
C8_ExcludedPathsDoNotCount ==
    \A k \in RowIndexes :
        (Annotated(k) /\ rows[k].fault = "ok") =>
            /\ rows[k].diff =
                 JoinParts(FindStringSubmatch(ShortstatLine(
                     DiffStat(Mask(tree[args.baseCommit]), Mask(tree[rows[k].commit]), Paths))))
            /\ ChangedPaths(rows[k].commit) \subseteq args.exclude => rows[k].diff = <<>>

\* C8, reached: an annotated row whose commit changes files, all of them excluded.
C8_Witness ==
    /\ iter = "excl"
    /\ \E k \in RowIndexes :
          /\ Annotated(k)
          /\ ChangedPaths(rows[k].commit) # {}
          /\ ChangedPaths(rows[k].commit) \subseteq args.exclude
          /\ rows[k].diff = <<>>

\* C9: reachable is seeded once from the ancestry probe (HEAD and the base share
\* an ancestor), is false after the visit of the base commit, never goes from
\* false to true, and the base commit does not change during the walk.
C9_ReachableMonotonic ==
    [][/\ ~reachable => ~reachable'
       /\ pc = "setup" => (reachable' <=> History \cap Ancestors(args.baseCommit) # {})
       /\ pc # "setup" /\ reachable' # reachable =>
             /\ pc = "walk" /\ logPos' = logPos + 1
             /\ LogOrder[logPos'] = args.baseCommit
       /\ (pc = "walk" /\ logPos' = logPos + 1 /\ LogOrder[logPos'] = args.baseCommit)
             => ~reachable'
       /\ pc = "walk" => args' = args]_vars

\* C9, reached: the walk has passed the base commit and goes on with the flag false.
C9_Witness ==
    /\ iter = "flag" /\ pc = "walk" /\ ~reachable
    /\ \E k \in RowIndexes : rows[k].commit = args.baseCommit /\ k < Len(rows)
    /\ logPos < Len(LogOrder)

Min(a, b) == IF a < b THEN a ELSE b

\* C10: a failed diff-stat leaves its commit's row in the table with an empty
\* diff field; the rows are the commits of the walk in traversal order, none
\* skipped, the remaining count and the flag are what they are without the
\* failure, and the walk goes on to the limit or the end of the history.
C10_DiffFailureIsNotFatal ==
    /\ \A k \in RowIndexes : rows[k].fault # "ok" => rows[k].diff = <<>>
    /\ \A k \in RowIndexes : rows[k].commit = LogOrder[k]
    /\ pc \in {"walk", "render", "done"} =>
          /\ count = args.numberCommits - Len(rows)
          /\ reachable <=> /\ History \cap Ancestors(args.baseCommit) # {}
                           /\ \A j \in 1..logPos : LogOrder[j] # args.baseCommit
    /\ (WalkOver /\ args.numberCommits >= 0) =>
          Len(rows) = Min(args.numberCommits, Len(LogOrder))
    /\ pc = "fatal" => logPos = 0

\* C10, reached: the diff failed for one commit and gave junk for the next one;
\* both rows are in the table, and every commit of the history has its row.
C10_Witness ==
    /\ iter = "flag" /\ pc = "done"
    /\ Len(rows) = MaxCommits
    /\ \E k \in RowIndexes :
          /\ Annotated(k) /\ rows[k].fault = "fail"
          /\ Annotated(k + 1) /\ rows[k + 1].fault = "junk"

====
